---- MODULE Spec2Model ----
(***************************************************************************)
(* Model of serve.py of traveler-integrated: the query handlers over a     *)
(* database of datasets (histogram, intervals listing, interval trace)     *)
(* and the generator that streams the ancestor chain of an interval.       *)
(*                                                                         *)
(* Three specifications are given.  Spec is the query service: the         *)
(* database as loaded at start-up and one action per query handler.        *)
(* IngestSpec is the service with the handlers that create a dataset and   *)
(* upload data to it, and the processes they start.  WalkSpec is           *)
(* the while loop of intervalTrace.intervalIdGenerator (lines 273-328) as  *)
(* a function of its local bindings, stepped one loop iteration at a time  *)
(* from every binding of targetInterval to an interval of the store.       *)
(***************************************************************************)
EXTENDS Integers, Sequences, FiniteSets, TLC

VARIABLES db, resp, gen, procs

vars == <<db, resp, gen, procs>>

(* Bounds of the model. *)
MaxIntervals == 3
MaxTime == 1

IntervalIds == 1 .. MaxIntervals
Timestamps == 0 .. MaxTime

(* Python's None as the value of a generator local. *)
None == [isNone |-> TRUE]

(* An optional request parameter: Absent is a parameter left at its default
   None, Given(v) one that the caller passed. *)
Absent == <<>>

Given(v) == <<v>>

Val(a) == a[1]

Locations == {"locA", "locB"}
Primitives == {"primX", "primY"}

(***************************************************************************)
(* Intervals.  An interval is a record as stored under db[label]           *)
(* ['intervals'][id]; 'lastParentInterval' is a key that is present only   *)
(* on intervals that have a parent.                                        *)
(***************************************************************************)
LocationOf(id) == IF id % 2 = 1 THEN "locA" ELSE "locB"

PrimitiveOf(id) == IF id <= 2 THEN "primX" ELSE "primY"

RootInterval(id, en, lv) ==
    [intervalId |-> id,
     enter |-> [Timestamp |-> en],
     leave |-> [Timestamp |-> lv],
     Location |-> LocationOf(id),
     Primitive |-> PrimitiveOf(id)]

ChildInterval(id, en, lv, pid, plv) ==
    [intervalId |-> id,
     enter |-> [Timestamp |-> en],
     leave |-> [Timestamp |-> lv],
     Location |-> LocationOf(id),
     Primitive |-> PrimitiveOf(id),
     lastParentInterval |->
        [id |-> pid, location |-> LocationOf(pid), endTimestamp |-> plv]]

(* A store from three choice functions; par[i] = 0 is a call-stack root. *)
MakeStore(en, lv, par) ==
    [i \in DOMAIN en |->
        IF par[i] = 0 THEN RootInterval(i, en[i], lv[i])
        ELSE ChildInterval(i, en[i], lv[i], par[i], lv[par[i]])]

HasParent(iv) == "lastParentInterval" \in DOMAIN iv

(***************************************************************************)
(* The generator of intervalTrace.  A generator state holds the locals of  *)
(* intervalIdGenerator, the chunks yielded so far and the position.        *)
(* Every chunk records the line of the yield that produced it and whether  *)
(* its text starts with a comma.                                           *)
(***************************************************************************)
OpenChunk == [line |-> 270, comma |-> FALSE, type |-> "open"]

CloseChunk == [line |-> 328, comma |-> FALSE, type |-> "close"]

IdChunk(ln, cm, id) == [line |-> ln, comma |-> cm, type |-> "id", id |-> id]

BeyondRightChunk(iv) ==
    [line |-> 287, comma |-> FALSE, type |-> "beyondRight",
     id |-> iv.intervalId,
     location |-> iv.Location,
     beginTimestamp |-> iv.enter.Timestamp]

BeyondLeftChunk(link) ==
    [line |-> 320, comma |-> TRUE, type |-> "beyondLeft",
     id |-> link.id,
     location |-> link.location,
     endTimestamp |-> link.endTimestamp]

(* The state right after line 271 bound the three locals to `target`. *)
GenAtLoop(label, target, begin, end) ==
    [label |-> label, begin |-> begin, end |-> end,
     targetInterval |-> target,
     intervalObj |-> target,
     oneBeyondRight |-> target,
     stream |-> <<OpenChunk>>,
     iters |-> 0,
     pc |-> "loop"]

(* Mutant of RightBoundaryStep: the reset of oneBeyondRight (line 294) is
   lost, so the step stays pending after it fired. *)
RightBoundaryStepStaysPending(g) ==
    IF g.oneBeyondRight # None /\ g.intervalObj.enter.Timestamp <= g.end
    THEN [g EXCEPT
            !.stream = Append(@,
                IF g.oneBeyondRight = g.targetInterval
                THEN IdChunk(280, FALSE, g.targetInterval.intervalId)
                ELSE BeyondRightChunk(g.oneBeyondRight))]
    ELSE g

(* Mutant of RightBoundaryStep: the marker describes the current interval
   (intervalObj) in place of the one remembered in oneBeyondRight. *)
RightBoundaryStepMarksCurrent(g) ==
    IF g.oneBeyondRight # None /\ g.intervalObj.enter.Timestamp <= g.end
    THEN [g EXCEPT
            !.stream = Append(@,
                IF g.oneBeyondRight = g.targetInterval
                THEN IdChunk(280, FALSE, g.targetInterval.intervalId)
                ELSE BeyondRightChunk(g.intervalObj)),
            !.oneBeyondRight = None]
    ELSE g

(* Lines 276-294: the right-boundary step. *)
RightBoundaryStep(g) ==
    IF g.oneBeyondRight # None /\ g.intervalObj.enter.Timestamp <= g.end
    THEN [g EXCEPT
            !.stream = Append(@,
                IF g.oneBeyondRight = g.targetInterval
                THEN IdChunk(280, FALSE, g.targetInterval.intervalId)
                ELSE BeyondRightChunk(g.oneBeyondRight)),
            !.oneBeyondRight = None]
    ELSE g

(* Mutant of PlainIdStep: the test that the current interval is not the
   target (line 298) is lost. *)
PlainIdStepAlways(g) ==
    [g EXCEPT !.stream = Append(@, IdChunk(299, TRUE, g.intervalObj.intervalId))]

(* Lines 296-299: yield the current interval unless it is the target. *)
PlainIdStep(g) ==
    IF g.intervalObj # g.targetInterval
    THEN [g EXCEPT !.stream = Append(@, IdChunk(299, TRUE, g.intervalObj.intervalId))]
    ELSE g

(* Mutant of ParentStep: the shift of intervalObj to its parent (line 307)
   is lost, so the loop stays on the same interval. *)
ParentStepNoShift(store, g) ==
    IF HasParent(g.intervalObj)
    THEN LET g1 == IF g.oneBeyondRight # None
                   THEN [g EXCEPT !.oneBeyondRight = g.intervalObj]
                   ELSE g
         IN  [g1 EXCEPT
                 !.pc = IF g.intervalObj.leave.Timestamp < g.begin
                        THEN "afterLoop" ELSE "loop"]
    ELSE [g EXCEPT !.intervalObj = None, !.pc = "afterLoop"]

(* Lines 301-315: remember the interval beyond the right edge, move to the
   parent, and leave the loop on the left-boundary check or at a root. *)
ParentStep(store, g) ==
    IF HasParent(g.intervalObj)
    THEN LET g1 == IF g.oneBeyondRight # None
                   THEN [g EXCEPT !.oneBeyondRight = g.intervalObj]
                   ELSE g
             prevId == g.intervalObj.lastParentInterval.id
         IN  IF prevId \notin DOMAIN store
             THEN [g1 EXCEPT !.pc = "KeyError"]
             ELSE [g1 EXCEPT
                     !.intervalObj = store[prevId],
                     !.pc = IF store[prevId].leave.Timestamp < g.begin
                            THEN "afterLoop" ELSE "loop"]
    ELSE [g EXCEPT !.intervalObj = None, !.pc = "afterLoop"]

(* One iteration of the while loop, lines 273-315. *)
LoopBody(store, g) ==
    LET g1 == ParentStep(store, PlainIdStep(RightBoundaryStep(g)))
    IN  [g1 EXCEPT !.iters = @ + 1]

(* Mutant of AfterLoop: the beyondLeft marker describes the stopping node
   itself instead of its parent link. *)
AfterLoopMarksStoppingNode(g) ==
    LET tail == IF g.intervalObj # None /\ HasParent(g.intervalObj)
                THEN <<[line |-> 320, comma |-> TRUE, type |-> "beyondLeft",
                        id |-> g.intervalObj.intervalId,
                        location |-> g.intervalObj.Location,
                        endTimestamp |-> g.intervalObj.leave.Timestamp],
                       IdChunk(326, TRUE, g.intervalObj.intervalId)>>
                ELSE <<>>
    IN  [g EXCEPT !.stream = @ \o tail \o <<CloseChunk>>, !.pc = "done"]

(* Lines 317-328: the beyondLeft marker, the stopping node and the bracket. *)
AfterLoop(g) ==
    LET tail == IF g.intervalObj # None /\ HasParent(g.intervalObj)
                THEN <<BeyondLeftChunk(g.intervalObj.lastParentInterval),
                       IdChunk(326, TRUE, g.intervalObj.intervalId)>>
                ELSE <<>>
    IN  [g EXCEPT !.stream = @ \o tail \o <<CloseChunk>>, !.pc = "done"]

(* Runs the generator from the loop to its end, as the consumer of the
   StreamingResponse does. *)
RECURSIVE RunGenerator(_, _)
RunGenerator(store, g) ==
    IF g.pc = "loop" THEN RunGenerator(store, LoopBody(store, g))
    ELSE IF g.pc = "afterLoop" THEN AfterLoop(g)
    ELSE g

(***************************************************************************)
(* The database.  db maps the labels of the datasets it holds to dataset   *)
(* dictionaries; a dataset has the key 'meta' and, once interval data was  *)
(* ingested and indexed, the keys 'intervals' and 'intervalIndexes'.       *)
(***************************************************************************)
Labels == {"d1", "d2"}

RECURSIVE SortedSeq(_)
SortedSeq(S) ==
    IF S = {} THEN <<>>
    ELSE LET m == CHOOSE x \in S : \A y \in S : x <= y
         IN  <<m>> \o SortedSeq(S \ {m})

MinOf(S) == CHOOSE x \in S : \A y \in S : x <= y

MaxOf(S) == CHOOSE x \in S : \A y \in S : x >= y

(* An index object over a subset of the intervals of a store. *)
IndexObj(name, members) == [name |-> name, members |-> members]

(* The index set built when a dataset is finalized: the main index, one per
   location, one per primitive and one per (location, primitive) pair that
   occurs in the store. *)
BuildIndexes(store) ==
    LET ids == DOMAIN store
        locs == {store[i].Location : i \in ids}
        prims == {store[i].Primitive : i \in ids}
        primsAt(l) == {store[i].Primitive : i \in {j \in ids : store[j].Location = l}}
    IN  [main |-> IndexObj(<<"main">>, ids),
         locations |-> [l \in locs |->
            IndexObj(<<"locations", l>>, {i \in ids : store[i].Location = l})],
         primitives |-> [p \in prims |->
            IndexObj(<<"primitives", p>>, {i \in ids : store[i].Primitive = p})],
         both |-> [l \in locs |-> [p \in primsAt(l) |->
            IndexObj(<<"both", l, p>>,
                     {i \in ids : store[i].Location = l /\ store[i].Primitive = p})]]]

IntervalDomain(store) ==
    <<MinOf({store[i].enter.Timestamp : i \in DOMAIN store}),
      MaxOf({store[i].leave.Timestamp : i \in DOMAIN store})>>

(* A dataset that was created and holds no interval data. *)
EmptyDataset == [meta |-> [sourceFiles |-> <<>>]]

(* A dataset whose intervals are stored and whose indexes are not built. *)
UnindexedDataset(store) ==
    [meta |-> [intervalDomain |-> IntervalDomain(store)],
     intervals |-> store]

(* A finalized dataset. *)
IndexedDataset(store) ==
    [meta |-> [intervalDomain |-> IntervalDomain(store)],
     intervals |-> store,
     intervalIndexes |-> BuildIndexes(store)]

(* The stores of the datasets on disk.  ScenarioStore is the target
   T = [15,25) (id 2) with the root parent P = [0,40) (id 1) and a second
   child [30,40) (id 3) of P; SingleStore is one root. *)
ScenarioStore == MakeStore(<<0, 15, 30>>, <<40, 25, 40>>, <<0, 1, 1>>)

SingleStore == MakeStore(<<0>>, <<40>>, <<0>>)

LoadableDatasets ==
    {EmptyDataset, UnindexedDataset(ScenarioStore),
     IndexedDataset(ScenarioStore), IndexedDataset(SingleStore)}

(* The values requests take their parameters from. *)
RequestWindows ==
    {<<Absent, Absent>>, <<Given(20), Given(30)>>, <<Given(25), Given(30)>>,
     <<Given(30), Given(20)>>, <<Given(40), Absent>>}

RequestBins == {0, 100}

HistogramModes == {"utilization", "count"}

RequestLocations == {Absent} \cup {Given(l) : l \in Locations}

RequestPrimitives == {Absent} \cup {Given(p) : p \in Primitives}

RequestIntervalIds == {1, 2, 4}

(***************************************************************************)
(* Responses.  status and detail are those of the HTTP response; body is   *)
(* what a 200 response carries (a histogram call or the chunks streamed);  *)
(* error names an exception raised while the body was being streamed.      *)
(***************************************************************************)
HTTPException(code, detail) ==
    [status |-> code, detail |-> detail, body |-> <<>>, error |-> "none"]

Ok(body) == [status |-> 200, detail |-> <<>>, body |-> body, error |-> "none"]

StreamFailed(body, err) ==
    [status |-> 200, detail |-> <<>>, body |-> body, error |-> err]

(* An exception other than HTTPException raised by a handler before it
   returned a response: the framework answers 500. *)
ServerError(err) == [status |-> 500, detail |-> <<>>, body |-> <<>>, error |-> err]

NoException == [status |-> 0, detail |-> <<>>, body |-> <<>>, error |-> "none"]

(* Lines 30-32. *)
checkDatasetExistence(d, label) ==
    IF label \notin DOMAIN d
    THEN HTTPException(404, <<"Dataset not found">>)
    ELSE NoException

(* Mutant of checkDatasetHasIntervals: 'and' for 'or', so a dataset that
   lacks only one of the two keys passes. *)
checkDatasetHasIntervalsAnd(d, label) ==
    IF "intervals" \notin DOMAIN d[label] /\ "intervalIndexes" \notin DOMAIN d[label]
    THEN HTTPException(404, <<"Dataset does not contain indexed interval data">>)
    ELSE NoException

(* Lines 33-35. *)
checkDatasetHasIntervals(d, label) ==
    IF "intervals" \notin DOMAIN d[label] \/ "intervalIndexes" \notin DOMAIN d[label]
    THEN HTTPException(404, <<"Dataset does not contain indexed interval data">>)
    ELSE NoException

(* Lines 206-207, 237-238, 261-262: the two checks every query starts with. *)
DatasetChecks(d, label) ==
    IF checkDatasetExistence(d, label) # NoException
    THEN checkDatasetExistence(d, label)
    ELSE checkDatasetHasIntervals(d, label)

(* Lines 209-212, 240-243, 264-267: an omitted bound of the window defaults
   to the dataset's interval domain. *)
DefaultBegin(d, label, begin) ==
    IF begin = Absent THEN d[label].meta.intervalDomain[1] ELSE Val(begin)

DefaultEnd(d, label, end) ==
    IF end = Absent THEN d[label].meta.intervalDomain[2] ELSE Val(end)

(* Line 214-219: the call compute<Mode>Histogram(bins, begin, end) on an
   index object, recorded by the index it is made on and its arguments. *)
ModeTitle(mode) == IF mode = "count" THEN "Count" ELSE "Utilization"

modeHelper(indexObj, mode, bins, begin, end) ==
    Ok(<<[index |-> indexObj.name,
          method |-> <<"compute", ModeTitle(mode), "Histogram">>,
          bins |-> bins, begin |-> begin, end |-> end]>>)

(* Mutant of histogramDispatch: with both selectors given the primitive is
   not looked at and the location's index is used. *)
histogramDispatchIgnoresPrimitive(ix, mode, bins, begin, end, location, primitive) ==
    IF location # Absent
    THEN IF Val(location) \notin DOMAIN ix.locations
         THEN HTTPException(404, <<"No index for location", Val(location)>>)
         ELSE modeHelper(ix.locations[Val(location)], mode, bins, begin, end)
    ELSE IF primitive # Absent
         THEN IF Val(primitive) \notin DOMAIN ix.primitives
              THEN HTTPException(404, <<"No index for primitive", Val(primitive)>>)
              ELSE modeHelper(ix.primitives[Val(primitive)], mode, bins, begin, end)
         ELSE modeHelper(ix.main, mode, bins, begin, end)

(* Mutant of histogramDispatch: a primitive unknown for a known location is
   reported with the detail of an unknown primitive. *)
histogramDispatchWrongDetail(ix, mode, bins, begin, end, location, primitive) ==
    IF location # Absent
    THEN IF Val(location) \notin DOMAIN ix.locations
         THEN HTTPException(404, <<"No index for location", Val(location)>>)
         ELSE IF primitive # Absent
              THEN IF Val(primitive) \notin DOMAIN ix.both[Val(location)]
                   THEN HTTPException(404, <<"No index for primitive", Val(primitive)>>)
                   ELSE modeHelper(ix.both[Val(location)][Val(primitive)],
                                   mode, bins, begin, end)
              ELSE modeHelper(ix.locations[Val(location)], mode, bins, begin, end)
    ELSE IF primitive # Absent
         THEN IF Val(primitive) \notin DOMAIN ix.primitives
              THEN HTTPException(404, <<"No index for primitive", Val(primitive)>>)
              ELSE modeHelper(ix.primitives[Val(primitive)], mode, bins, begin, end)
         ELSE modeHelper(ix.main, mode, bins, begin, end)

(* Lines 221-233: the dispatch on the selectors. *)
histogramDispatch(ix, mode, bins, begin, end, location, primitive) ==
    IF location # Absent
    THEN IF Val(location) \notin DOMAIN ix.locations
         THEN HTTPException(404, <<"No index for location", Val(location)>>)
         ELSE IF primitive # Absent
              THEN IF Val(primitive) \notin DOMAIN ix.both[Val(location)]
                   THEN HTTPException(404,
                            <<"No index for location, primitive combination",
                              Val(location), Val(primitive)>>)
                   ELSE modeHelper(ix.both[Val(location)][Val(primitive)],
                                   mode, bins, begin, end)
              ELSE modeHelper(ix.locations[Val(location)], mode, bins, begin, end)
    ELSE IF primitive # Absent
         THEN IF Val(primitive) \notin DOMAIN ix.primitives
              THEN HTTPException(404, <<"No index for primitive", Val(primitive)>>)
              ELSE modeHelper(ix.primitives[Val(primitive)], mode, bins, begin, end)
         ELSE modeHelper(ix.main, mode, bins, begin, end)

(* Lines 198-233: the histogram handler. *)
histogram(d, label, mode, bins, begin, end, location, primitive) ==
    IF DatasetChecks(d, label) # NoException
    THEN DatasetChecks(d, label)
    ELSE IF "intervalIndexes" \notin DOMAIN d[label]
    THEN ServerError("KeyError")
    ELSE histogramDispatch(d[label].intervalIndexes, mode, bins,
                           DefaultBegin(d, label, begin),
                           DefaultEnd(d, label, end),
                           location, primitive)

(* iterOverlap(begin, end) of an index object: the members that overlap the
   half-open window, in ascending order of id. *)
iterOverlap(indexObj, store, begin, end) ==
    SortedSeq({i \in indexObj.members :
                 store[i].enter.Timestamp < end /\ store[i].leave.Timestamp > begin})

RecordChunk(cm, iv) == [line |-> 251, comma |-> cm, type |-> "record", interval |-> iv]

(* Mutant of intervalGenerator: the loop of line 248 iterates over every
   member of the main index instead of those iterOverlap returns. *)
intervalGeneratorWholeIndex(ds, begin, end) ==
    LET hits == SortedSeq(ds.intervalIndexes.main.members)
    IN  <<[line |-> 246, comma |-> FALSE, type |-> "open"]>>
        \o [k \in 1 .. Len(hits) |-> RecordChunk(k > 1, ds.intervals[hits[k]])]
        \o <<[line |-> 253, comma |-> FALSE, type |-> "close"]>>

(* Lines 245-253: the generator of the intervals listing. *)
intervalGenerator(ds, begin, end) ==
    LET hits == iterOverlap(ds.intervalIndexes.main, ds.intervals, begin, end)
    IN  <<[line |-> 246, comma |-> FALSE, type |-> "open"]>>
        \o [k \in 1 .. Len(hits) |-> RecordChunk(k > 1, ds.intervals[hits[k]])]
        \o <<[line |-> 253, comma |-> FALSE, type |-> "close"]>>

(* The response of the generator consumed to its end; a KeyError on the
   dataset's keys ends the stream after the opening bracket. *)
intervalStream(ds, begin, end) ==
    IF "intervalIndexes" \notin DOMAIN ds \/ "intervals" \notin DOMAIN ds
    THEN StreamFailed(<<[line |-> 246, comma |-> FALSE, type |-> "open"]>>, "KeyError")
    ELSE Ok(intervalGenerator(ds, begin, end))

(* Lines 235-254: the intervals handler. *)
intervals(d, label, begin, end) ==
    IF DatasetChecks(d, label) # NoException
    THEN DatasetChecks(d, label)
    ELSE intervalStream(d[label],
                        DefaultBegin(d, label, begin),
                        DefaultEnd(d, label, end))

(* Line 271: the key under which the generator looks the target up. *)
TargetStoreKey == "itervals"

(* The generator when the lookup of line 271 raised KeyError: only the
   opening bracket was yielded. *)
GenKeyError(label, begin, end) ==
    [label |-> label, begin |-> begin, end |-> end,
     targetInterval |-> None,
     intervalObj |-> None,
     oneBeyondRight |-> None,
     stream |-> <<OpenChunk>>,
     iters |-> 0,
     pc |-> "KeyError"]

(* Lines 269-328: the generator run to its end: the opening bracket, the
   lookup of the target, the loop and what follows it. *)
intervalIdGenerator(ds, label, intervalId, begin, end) ==
    IF TargetStoreKey \notin DOMAIN ds
    THEN GenKeyError(label, begin, end)
    ELSE IF intervalId \notin DOMAIN ds[TargetStoreKey]
    THEN GenKeyError(label, begin, end)
    ELSE RunGenerator(ds.intervals,
                      GenAtLoop(label, ds[TargetStoreKey][intervalId], begin, end))

(* The response being served streams from no trace generator. *)
IdleGen ==
    [label |-> "", begin |-> 0, end |-> 0,
     targetInterval |-> None,
     intervalObj |-> None,
     oneBeyondRight |-> None,
     stream |-> <<>>,
     iters |-> 0,
     pc |-> "idle"]

(* Lines 256-329: the trace handler and the generator it returns. *)
intervalTraceGen(d, label, intervalId, begin, end) ==
    IF DatasetChecks(d, label) # NoException
    THEN IdleGen
    ELSE intervalIdGenerator(d[label], label, intervalId,
                             DefaultBegin(d, label, begin),
                             DefaultEnd(d, label, end))

intervalTrace(d, label, intervalId, begin, end) ==
    IF DatasetChecks(d, label) # NoException
    THEN DatasetChecks(d, label)
    ELSE LET g == intervalTraceGen(d, label, intervalId, begin, end)
         IN  IF g.pc = "done" THEN Ok(g.stream)
             ELSE StreamFailed(g.stream, g.pc)

(***************************************************************************)
(* The service.                                                            *)
(***************************************************************************)
Request(op, label, args) == [op |-> op, label |-> label, args |-> args]

NoResponse == [req |-> Request("none", "", <<>>), res |-> NoException]

(* An ingestion process is the coroutine startProcess of a create or upload
   request, run by logger.iterate while the response is streamed: its kind,
   its label and its position.  procs holds the processes in flight. *)
MaxProcs == 2

ProcIds == 1 .. MaxProcs

NoProc == [kind |-> "none", label |-> "", pc |-> "idle"]

NoProcs == [p \in ProcIds |-> NoProc]

(* Line 332: the database as loaded from disk. *)
Init ==
    /\ \E L \in SUBSET Labels : db \in [L -> LoadableDatasets]
    /\ resp = NoResponse
    /\ gen = IdleGen
    /\ procs = NoProcs

(* Mutant of Histogram: a location selector that does not resolve creates
   an empty index for that location, as a lookup in a defaultdict would. *)
HistogramBuildsOnDemand(label, mode, bins, begin, end, location, primitive) ==
    /\ resp' = [req |-> Request("histogram", label,
                        <<mode, bins, begin, end, location, primitive>>),
                res |-> histogram(db, label, mode, bins, begin, end,
                                  location, primitive)]
    /\ gen' = IdleGen
    /\ db' = IF /\ DatasetChecks(db, label) = NoException
                /\ location # Absent
                /\ Val(location) \notin DOMAIN db[label].intervalIndexes.locations
             THEN [db EXCEPT ![label].intervalIndexes.locations =
                     [l \in DOMAIN @ \cup {Val(location)} |->
                        IF l \in DOMAIN @ THEN @[l]
                        ELSE IndexObj(<<"locations", l>>, {})]]
             ELSE db
    /\ UNCHANGED procs

Histogram(label, mode, bins, begin, end, location, primitive) ==
    /\ resp' = [req |-> Request("histogram", label,
                        <<mode, bins, begin, end, location, primitive>>),
                res |-> histogram(db, label, mode, bins, begin, end,
                                  location, primitive)]
    /\ gen' = IdleGen
    /\ UNCHANGED <<db, procs>>

Intervals(label, begin, end) ==
    /\ resp' = [req |-> Request("intervals", label, <<begin, end>>),
                res |-> intervals(db, label, begin, end)]
    /\ gen' = IdleGen
    /\ UNCHANGED <<db, procs>>

IntervalTrace(label, intervalId, begin, end) ==
    /\ resp' = [req |-> Request("trace", label, <<intervalId, begin, end>>),
                res |-> intervalTrace(db, label, intervalId, begin, end)]
    /\ gen' = intervalTraceGen(db, label, intervalId, begin, end)
    /\ UNCHANGED <<db, procs>>

(* Lines 89-91. *)
DeleteDataset(label) ==
    /\ label \in DOMAIN db
    /\ db' = [l \in DOMAIN db \ {label} |-> db[l]]
    /\ resp' = [req |-> Request("delete", label, <<>>), res |-> Ok(<<>>)]
    /\ gen' = IdleGen
    /\ UNCHANGED procs

Next ==
    \/ \E label \in Labels, mode \in HistogramModes, bins \in RequestBins,
          w \in RequestWindows,
          location \in RequestLocations, primitive \in RequestPrimitives :
            Histogram(label, mode, bins, w[1], w[2], location, primitive)
    \/ \E label \in Labels, w \in RequestWindows :
            Intervals(label, w[1], w[2])
    \/ \E label \in Labels, intervalId \in RequestIntervalIds,
          w \in RequestWindows :
            IntervalTrace(label, intervalId, w[1], w[2])
    \/ \E label \in Labels : DeleteDataset(label)

Spec == Init /\ [][Next]_vars

(***************************************************************************)
(* Ingestion.  The handlers create_dataset and add_* return a streaming    *)
(* response over logger.iterate(startProcess): the handler itself makes    *)
(* its check and returns, and the coroutine startProcess runs afterwards,  *)
(* interleaved at its awaits with other coroutines and with the handlers   *)
(* of other requests.  A process takes two steps: the calls up to the      *)
(* await of db.save, then db.save and logger.finish.                       *)
(***************************************************************************)
IngestLabel == "d1"

(* The intervals a log upload holds. *)
IngestStore == ScenarioStore

FreeProcIds == {p \in ProcIds : procs[p] = NoProc}

InFlight(label) == {p \in ProcIds : procs[p] # NoProc /\ procs[p].label = label}

Accepted(code) == [status |-> code, detail |-> <<>>, body |-> <<>>, error |-> "none"]

(* StreamingResponse(logger.iterate(startProcess)): a handler that passed
   its check returns the response with startProcess not yet run; one that
   raised starts nothing. *)
StartProcess(kind, label, res) ==
    IF res.status \in {200, 201}
    THEN /\ FreeProcIds # {}
         /\ procs' = [procs EXCEPT ![MinOf(FreeProcIds)] =
                         [kind |-> kind, label |-> label, pc |-> "start"]]
    ELSE UNCHANGED procs

(* Lines 62-63 and 88: what create_dataset answers. *)
createResponse(d, label) ==
    IF label \in DOMAIN d
    THEN HTTPException(409, <<"Dataset with label already exists", label>>)
    ELSE Accepted(201)

(* Lines 60-88: the handler of create_dataset. *)
CreateDataset(label) ==
    /\ resp' = [req |-> Request("create", label, <<>>),
                res |-> createResponse(db, label)]
    /\ StartProcess("create", label, createResponse(db, label))
    /\ gen' = IdleGen
    /\ UNCHANGED db

(* What an upload handler answers: checkDatasetExistence, then the response
   over startProcess. *)
uploadResponse(d, label) ==
    IF checkDatasetExistence(d, label) # NoException
    THEN checkDatasetExistence(d, label)
    ELSE Accepted(200)

(* Lines 103-112. *)
AddNewickTree(label) ==
    /\ resp' = [req |-> Request("newick", label, <<>>),
                res |-> uploadResponse(db, label)]
    /\ StartProcess("newick", label, uploadResponse(db, label))
    /\ gen' = IdleGen
    /\ UNCHANGED db

(* Lines 114-123. *)
AddPerformanceCsv(label) ==
    /\ resp' = [req |-> Request("csv", label, <<>>),
                res |-> uploadResponse(db, label)]
    /\ StartProcess("csv", label, uploadResponse(db, label))
    /\ gen' = IdleGen
    /\ UNCHANGED db

(* Lines 125-134. *)
AddDotGraph(label) ==
    /\ resp' = [req |-> Request("dot", label, <<>>),
                res |-> uploadResponse(db, label)]
    /\ StartProcess("dot", label, uploadResponse(db, label))
    /\ gen' = IdleGen
    /\ UNCHANGED db

(* Lines 136-145. *)
AddFullPhylanxLog(label) ==
    /\ resp' = [req |-> Request("log", label, <<>>),
                res |-> uploadResponse(db, label)]
    /\ StartProcess("log", label, uploadResponse(db, label))
    /\ gen' = IdleGen
    /\ UNCHANGED db

(* db.createDataset(label): the dataset of the label is a new, empty one. *)
createDataset(d, label) ==
    [l \in DOMAIN d \cup {label} |-> IF l = label THEN EmptyDataset ELSE d[l]]

(* The ingestion collaborator appends the intervals of a log to the
   dataset's store; an index set built earlier stays as it is. *)
addIntervals(ds, store) ==
    IF "intervalIndexes" \in DOMAIN ds
    THEN [meta |-> [intervalDomain |-> IntervalDomain(store)],
          intervals |-> store,
          intervalIndexes |-> ds.intervalIndexes]
    ELSE UnindexedDataset(store)

(* Finalizing a dataset builds the index set of its store. *)
finalize(ds) ==
    IF "intervals" \in DOMAIN ds THEN IndexedDataset(ds.intervals) ELSE ds

(* The body of startProcess up to the await of db.save (lines 66-85, 108-109,
   119-120, 130-131, 141-142).  Tree, csv, dot and code sources are data
   outside the interval store and the index set. *)
ProcessStep(p) ==
    /\ procs[p].pc = "start"
    /\ procs' = [procs EXCEPT ![p].pc = "save"]
    /\ db' = IF procs[p].kind = "create"
             THEN createDataset(db, procs[p].label)
             ELSE IF procs[p].kind = "log"
             THEN [db EXCEPT ![procs[p].label] = addIntervals(@, IngestStore)]
             ELSE db
    /\ UNCHANGED <<resp, gen>>

(* await db.save(label, logger.log); logger.finish() (lines 86-87, 110-111,
   121-122, 132-133, 143-144). *)
ProcessFinish(p) ==
    /\ procs[p].pc = "save"
    /\ procs' = [procs EXCEPT ![p] = NoProc]
    /\ db' = IF procs[p].kind = "log"
             THEN [db EXCEPT ![procs[p].label] = finalize(@)]
             ELSE db
    /\ UNCHANGED <<resp, gen>>

IngestInit ==
    /\ \E L \in SUBSET {IngestLabel} : db \in [L -> LoadableDatasets]
    /\ resp = NoResponse
    /\ gen = IdleGen
    /\ procs = NoProcs

IngestNext ==
    \/ CreateDataset(IngestLabel)
    \/ AddNewickTree(IngestLabel)
    \/ AddPerformanceCsv(IngestLabel)
    \/ AddDotGraph(IngestLabel)
    \/ AddFullPhylanxLog(IngestLabel)
    \/ \E p \in ProcIds : ProcessStep(p)
    \/ \E p \in ProcIds : ProcessFinish(p)
    \/ Histogram(IngestLabel, "count", 100, Absent, Absent, Absent, Absent)
    \/ Intervals(IngestLabel, Absent, Absent)
    \/ IntervalTrace(IngestLabel, 2, Absent, Absent)

IngestSpec == IngestInit /\ [][IngestNext]_vars

(***************************************************************************)
(* The walk.  WalkSpec starts the generator at the loop for every store of *)
(* at most MaxIntervals intervals with timestamps up to MaxTime whose      *)
(* parent links are acyclic and refer to intervals of the store, every     *)
(* target of the store and every window, and steps it one iteration of     *)
(* the while loop at a time.                                               *)
(***************************************************************************)
WalkLabel == "d1"

(* Parent links: an interval is a call-stack root (0) or its last parent is
   the interval with the preceding id, so that every chain of at most
   MaxIntervals intervals occurs and no chain has a cycle. *)
ParentChoices == {par \in [IntervalIds -> 0 .. MaxIntervals] :
                    \A i \in IntervalIds : par[i] \in {0, i - 1}}

WalkStores ==
    {MakeStore(en, lv, par) :
        en \in [IntervalIds -> Timestamps],
        lv \in [IntervalIds -> Timestamps],
        par \in ParentChoices}

WellTimed(store) ==
    \A i \in DOMAIN store : store[i].enter.Timestamp <= store[i].leave.Timestamp

WalkInit ==
    \E store \in WalkStores, t \in IntervalIds, b \in Timestamps, e \in Timestamps :
        /\ WellTimed(store)
        /\ db = [l \in {WalkLabel} |-> IndexedDataset(store)]
        /\ resp = [req |-> Request("trace", WalkLabel, <<t, Given(b), Given(e)>>),
                   res |-> Ok(<<>>)]
        /\ gen = GenAtLoop(WalkLabel, store[t], b, e)
        /\ procs = NoProcs

(* Lines 273-315: one iteration of the while loop. *)
WalkIterate ==
    /\ gen.pc = "loop"
    /\ gen' = LoopBody(db[gen.label].intervals, gen)
    /\ UNCHANGED <<db, resp, procs>>

(* Lines 317-328: what follows the loop. *)
WalkFinish ==
    /\ gen.pc = "afterLoop"
    /\ gen' = AfterLoop(gen)
    /\ UNCHANGED <<db, resp, procs>>

WalkNext == WalkIterate \/ WalkFinish

WalkSpec == WalkInit /\ [][WalkNext]_vars

(***************************************************************************)
(* Properties.  What the properties read of a request and its response.    *)
(***************************************************************************)
ReqLabel == resp.req.label

ReqArgs == resp.req.args

IsQuery == resp.req.op \in {"histogram", "intervals", "trace"}

(* The dataset of the request exists and has the store and the index set. *)
Queryable ==
    /\ ReqLabel \in DOMAIN db
    /\ "intervals" \in DOMAIN db[ReqLabel]
    /\ "intervalIndexes" \in DOMAIN db[ReqLabel]

(* The ids on the chain of parent links that starts at id. *)
RECURSIVE ChainFrom(_, _)
ChainFrom(store, id) ==
    IF id \notin DOMAIN store THEN <<>>
    ELSE IF HasParent(store[id])
    THEN <<id>> \o ChainFrom(store, store[id].lastParentInterval.id)
    ELSE <<id>>

(* The chunks of a stream between the brackets. *)
EmittedItems(stream) == SelectSeq(stream, LAMBDA c : c.type \notin {"open", "close"})

(* The window of a request after defaulting. *)
WindowBegin(a) ==
    IF a = Absent THEN db[ReqLabel].meta.intervalDomain[1] ELSE a[1]

WindowEnd(a) ==
    IF a = Absent THEN db[ReqLabel].meta.intervalDomain[2] ELSE a[1]

(* The case of C1: the last request is a trace on a queryable dataset whose
   target is in the store with enter <= end and whose ancestors all have
   leave >= begin. *)
C1_TraceInWindow ==
    /\ resp.req.op = "trace"
    /\ Queryable
    /\ LET store == db[ReqLabel].intervals
           chain == ChainFrom(store, ReqArgs[1])
       IN  /\ ReqArgs[1] \in DOMAIN store
           /\ store[ReqArgs[1]].enter.Timestamp <= WindowEnd(ReqArgs[3])
           /\ \A k \in 2 .. Len(chain) :
                 store[chain[k]].leave.Timestamp >= WindowBegin(ReqArgs[2])

(* C1: a trace whose target T is in the interval store, with T.enter <= end
   and every ancestor on T's parent chain with leave >= begin, streams
   exactly T's id followed by the ids of its ancestors in parent-link order
   up to the root, and no boundary marker (scenario B: [T.id, P.id]). *)
C1_TraceEmitsAncestorChain ==
    C1_TraceInWindow =>
        LET items == EmittedItems(resp.res.body)
            chain == ChainFrom(db[ReqLabel].intervals, ReqArgs[1])
        IN  /\ resp.res.status = 200
            /\ resp.res.error = "none"
            /\ Len(items) = Len(chain)
            /\ \A k \in 1 .. Len(items) :
                  items[k].type = "id" /\ items[k].id = chain[k]

(* C2: the target of a trace is looked up in the interval store that
   checkDatasetHasIntervals verified and that the ancestors are looked up
   in, so a trace for an id of that store does not fail at the target
   lookup: it enters the walk. *)
C2_TargetLookupInIntervalStore ==
    (/\ resp.req.op = "trace"
     /\ Queryable
     /\ ReqArgs[1] \in DOMAIN db[ReqLabel].intervals)
    => /\ TargetStoreKey \in DOMAIN db[ReqLabel]
       /\ gen.pc # "KeyError"
       /\ gen.iters >= 1

(* C3: the index a histogram is computed on is decided by the selectors
   that are present alone: none, the main index; location only, that
   location's index; primitive only, that primitive's index; both, the
   combined index of the pair; and it is computed on that index only. *)
C3_IndexBySelectors ==
    (resp.req.op = "histogram" /\ resp.res.status = 200) =>
        LET location == ReqArgs[5]
            primitive == ReqArgs[6]
        IN  /\ Len(resp.res.body) = 1
            /\ resp.res.body[1].index =
                  IF location = Absent /\ primitive = Absent THEN <<"main">>
                  ELSE IF primitive = Absent THEN <<"locations", location[1]>>
                  ELSE IF location = Absent THEN <<"primitives", primitive[1]>>
                  ELSE <<"both", location[1], primitive[1]>>

C3_Witness ==
    /\ resp.req.op = "histogram"
    /\ resp.res.status = 200
    /\ resp.res.body[1].index = <<"both", "locB", "primX">>

(* C4: a histogram request whose selector does not resolve fails with 404
   and no histogram, and the detail names the selector: an unknown location
   (with or without a primitive), an unknown primitive for a known location,
   an unknown primitive without location; the three details differ. *)
C4_UnresolvedSelectorNamed ==
    (resp.req.op = "histogram" /\ Queryable) =>
        LET ix == db[ReqLabel].intervalIndexes
            location == ReqArgs[5]
            primitive == ReqArgs[6]
            failsWith(d) == /\ resp.res.status = 404
                            /\ resp.res.body = <<>>
                            /\ resp.res.detail = d
        IN  /\ (location # Absent /\ location[1] \notin DOMAIN ix.locations)
                => failsWith(<<"No index for location", location[1]>>)
            /\ (/\ location # Absent
                /\ location[1] \in DOMAIN ix.locations
                /\ primitive # Absent
                /\ primitive[1] \notin DOMAIN ix.both[location[1]])
                => failsWith(<<"No index for location, primitive combination",
                               location[1], primitive[1]>>)
            /\ (/\ location = Absent
                /\ primitive # Absent
                /\ primitive[1] \notin DOMAIN ix.primitives)
                => failsWith(<<"No index for primitive", primitive[1]>>)

C4_Witness ==
    /\ resp.req.op = "histogram"
    /\ Queryable
    /\ ReqArgs[5] # Absent
    /\ ReqArgs[6] # Absent
    /\ ReqArgs[5][1] \in DOMAIN db[ReqLabel].intervalIndexes.locations
    /\ ReqArgs[6][1] \in DOMAIN db[ReqLabel].intervalIndexes.primitives
    /\ resp.res.status = 404

(* C5: a histogram, intervals or trace request for a label that is not in
   the database fails with 'Dataset not found', and one for a dataset
   without the interval store or without the index set fails with 'Dataset
   does not contain indexed interval data'; nothing was resolved, read or
   streamed before the failure. *)
C5_DatasetChecksFirst ==
    IsQuery =>
        LET failsWith(d) == /\ resp.res.status = 404
                            /\ resp.res.detail = d
                            /\ resp.res.body = <<>>
                            /\ resp.res.error = "none"
                            /\ gen.pc = "idle"
                            /\ gen.stream = <<>>
        IN  /\ ReqLabel \notin DOMAIN db => failsWith(<<"Dataset not found">>)
            /\ (ReqLabel \in DOMAIN db /\ ~Queryable)
                => failsWith(<<"Dataset does not contain indexed interval data">>)

C5_Witness ==
    /\ resp.req.op = "trace"
    /\ ReqLabel \in DOMAIN db
    /\ "intervals" \in DOMAIN db[ReqLabel]
    /\ "intervalIndexes" \notin DOMAIN db[ReqLabel]
    /\ resp.res.status = 404

(* C10: a histogram request with bins < 1, or with begin >= end after
   defaulting, is answered with an error and no histogram computation is
   made on any index. *)
C10_InvalidWindowRejected ==
    (/\ resp.req.op = "histogram"
     /\ Queryable
     /\ \/ ReqArgs[2] < 1
        \/ WindowBegin(ReqArgs[3]) >= WindowEnd(ReqArgs[4]))
    => /\ resp.res.status # 200
       /\ resp.res.body = <<>>

(* C11: a trace request for an id that is not in the interval store, on a
   dataset that exists and has the store and the index set, is answered
   with an explicit error response (a 4xx status with a detail) before any
   stream is opened: no chunk was sent and no exception was raised inside
   the generator. *)
C11_UnknownIntervalExplicit ==
    (/\ resp.req.op = "trace"
     /\ Queryable
     /\ ReqArgs[1] \notin DOMAIN db[ReqLabel].intervals)
    => /\ resp.res.status \in 400 .. 499
       /\ resp.res.detail # <<>>
       /\ resp.res.body = <<>>
       /\ resp.res.error = "none"
       /\ gen.stream = <<>>

(* The intervals of the request's dataset that overlap the half-open window
   [b, e): enter < e and leave > b. *)
Overlapping(b, e) ==
    {i \in DOMAIN db[ReqLabel].intervals :
        /\ db[ReqLabel].intervals[i].enter.Timestamp < e
        /\ db[ReqLabel].intervals[i].leave.Timestamp > b}

(* C14: on a dataset with the store and the index set, the intervals
   listing streams, between the brackets, exactly one record for each
   interval of the store with enter < end and leave > begin and no other
   record; an interval that ends at begin or begins at end is left out, and
   when no interval matches the list is empty and the status is 200. *)
C14_ListingIsOverlapSet ==
    (resp.req.op = "intervals" /\ Queryable) =>
        LET hits == Overlapping(WindowBegin(ReqArgs[1]), WindowEnd(ReqArgs[2]))
            items == EmittedItems(resp.res.body)
        IN  /\ resp.res.status = 200
            /\ resp.res.error = "none"
            /\ Len(resp.res.body) = Len(items) + 2
            /\ Len(items) = Cardinality(hits)
            /\ \A k \in 1 .. Len(items) : items[k].type = "record"
            /\ {items[k].interval : k \in 1 .. Len(items)}
                  = {db[ReqLabel].intervals[i] : i \in hits}

(* A listing that leaves out an interval that ends exactly at begin and one
   that begins exactly at end, and streams the rest. *)
C14_Witness ==
    /\ resp.req.op = "intervals"
    /\ Queryable
    /\ ReqArgs[1] # Absent
    /\ ReqArgs[2] # Absent
    /\ ReqArgs[1][1] < ReqArgs[2][1]
    /\ \E i \in DOMAIN db[ReqLabel].intervals :
          db[ReqLabel].intervals[i].leave.Timestamp = ReqArgs[1][1]
    /\ \E i \in DOMAIN db[ReqLabel].intervals :
          db[ReqLabel].intervals[i].enter.Timestamp = ReqArgs[2][1]
    /\ Len(EmittedItems(resp.res.body)) = 1

(* C20: a step that answers a histogram, intervals or trace request, with
   a result or with any error, leaves the database as it was: the same
   labels, the same interval stores and the same index sets with the same
   keys in every family; a selector that does not resolve creates no
   entry. *)
C20_QueriesLeaveDbUnchanged ==
    [][IsQuery' =>
        /\ DOMAIN db' = DOMAIN db
        /\ \A l \in DOMAIN db :
              /\ DOMAIN db'[l] = DOMAIN db[l]
              /\ "intervals" \in DOMAIN db[l]
                    => db'[l].intervals = db[l].intervals
              /\ "intervalIndexes" \in DOMAIN db[l]
                    => LET old == db[l].intervalIndexes
                           new == db'[l].intervalIndexes
                       IN  /\ DOMAIN new = DOMAIN old
                           /\ DOMAIN new.locations = DOMAIN old.locations
                           /\ DOMAIN new.primitives = DOMAIN old.primitives
                           /\ DOMAIN new.both = DOMAIN old.both
                           /\ \A loc \in DOMAIN old.both :
                                 DOMAIN new.both[loc] = DOMAIN old.both[loc]
        /\ db' = db]_vars

(* A histogram request whose location selector did not resolve was
   answered, and the index set has no entry for that location. *)
C20_Witness ==
    /\ resp.req.op = "histogram"
    /\ Queryable
    /\ ReqArgs[5] # Absent
    /\ ReqArgs[5][1] \notin DOMAIN db[ReqLabel].intervalIndexes.locations
    /\ resp.res.status = 404
    /\ resp.res.detail[1] = "No index for location"

(***************************************************************************)
(* Properties of ingestion (IngestSpec).                                   *)
(***************************************************************************)
(* C12: under every interleaving of create and upload requests for one
   label, at most one ingestion process of that label is in flight; two
   create requests for an unused label do not both start a process. *)
C12_AtMostOneInFlight ==
    Cardinality(InFlight(IngestLabel)) <= 1

(* C13: a query that passed the dataset checks (answered with status 200)
   was made on a label with no ingestion process in flight and read a
   dataset whose index set is the one built from its interval store. *)
C13_QueriesSeeBuiltIndexes ==
    (IsQuery /\ resp.res.status = 200) =>
        /\ InFlight(ReqLabel) = {}
        /\ Queryable
        /\ db[ReqLabel].intervalIndexes = BuildIndexes(db[ReqLabel].intervals)

(***************************************************************************)
(* Properties of the walk (WalkSpec).                                     *)
(***************************************************************************)
WalkStore == db[gen.label].intervals

(* The ids from the target up its chain of parent links. *)
WalkChain == ChainFrom(WalkStore, gen.targetInterval.intervalId)

(* The position on the chain of the first ancestor that lies left of the
   window (leave < begin), the node the left-boundary check stops at; 0 when
   every ancestor passes the check and the walk ends at the root. *)
LeftStop ==
    LET ks == {k \in 2 .. Len(WalkChain) :
                 WalkStore[WalkChain[k]].leave.Timestamp < gen.begin}
    IN  IF ks = {} THEN 0 ELSE MinOf(ks)

HasBeyondLeft == \E k \in 1 .. Len(gen.stream) : gen.stream[k].type = "beyondLeft"

(* C6: over a store whose parent links are acyclic and refer to intervals
   of the store, the walk ends for every target and window: the loop body
   runs once per node of the target's chain at most, each iteration on the
   next node of the chain, a step is possible until the generator is done,
   and the generator ends by closing the stream. *)
C6_WalkTerminates ==
    /\ gen.pc \in {"loop", "afterLoop", "done"}
    /\ gen.iters <= Len(WalkChain)
    /\ gen.pc = "loop" =>
          /\ gen.iters < Len(WalkChain)
          /\ gen.intervalObj = WalkStore[WalkChain[gen.iters + 1]]
    /\ gen.pc = "done" \/ ENABLED WalkNext
    /\ gen.pc = "done" => gen.stream[Len(gen.stream)] = CloseChunk

C6_Witness ==
    /\ gen.pc = "done"
    /\ gen.iters = Cardinality(DOMAIN WalkStore)
    /\ gen.iters >= 3

(* C7 as stated: a beyondLeft marker is emitted exactly when the walk
   stopped on the left-boundary check: such a walk ends with the marker of
   the stopping node's parent link and the stopping node's id, and a walk
   that ends at a root has no beyondLeft marker. *)
C7_MarkerIffLeftStop ==
    gen.pc = "done" =>
        LET n == Len(gen.stream)
        IN  IF LeftStop # 0
            THEN /\ HasBeyondLeft
                 /\ gen.stream[n - 2].type = "beyondLeft"
                 /\ gen.stream[n - 1] =
                       IdChunk(326, TRUE, WalkChain[LeftStop])
            ELSE ~HasBeyondLeft

(* C7 amended: a beyondLeft marker is emitted exactly when the walk stopped
   on the left-boundary check at a node that has a parent link: the stream
   then ends with one marker that carries the id, location and end
   timestamp of that link, followed by the stopping node's id; a walk that
   stops on the left-boundary check at a root, or that ends at a root,
   emits no beyondLeft marker. *)
C7_MarkerIffLeftStopWithParent ==
    gen.pc = "done" =>
        LET n == Len(gen.stream)
            stop == WalkStore[WalkChain[LeftStop]]
        IN  IF LeftStop # 0 /\ HasParent(stop)
            THEN /\ gen.stream[n - 2].type = "beyondLeft"
                 /\ gen.stream[n - 2].id = stop.lastParentInterval.id
                 /\ gen.stream[n - 2].location = stop.lastParentInterval.location
                 /\ gen.stream[n - 2].endTimestamp = stop.lastParentInterval.endTimestamp
                 /\ gen.stream[n - 1] = IdChunk(326, TRUE, stop.intervalId)
                 /\ \A k \in 1 .. n : gen.stream[k].type = "beyondLeft" => k = n - 2
            ELSE ~HasBeyondLeft

C7_Witness ==
    /\ gen.pc = "done"
    /\ LeftStop # 0
    /\ HasBeyondLeft

(* C8: when the right-boundary step emits the target's id itself (line
   280), the target's enter timestamp is <= end. *)
C8_DirectTargetInsideRightEdge ==
    \A k \in 1 .. Len(gen.stream) :
        gen.stream[k].line = 280 =>
            gen.targetInterval.enter.Timestamp <= gen.end

(* C9: every id emitted as a plain id, but for the stopping node's id that
   follows a beyondLeft marker (line 326), is of an interval with
   enter <= end and leave >= begin. *)
C9_PlainIdsInsideWindow ==
    \A k \in 1 .. Len(gen.stream) :
        (gen.stream[k].type = "id" /\ gen.stream[k].line # 326) =>
            /\ WalkStore[gen.stream[k].id].enter.Timestamp <= gen.end
            /\ WalkStore[gen.stream[k].id].leave.Timestamp >= gen.begin

(* The positions of the stream whose chunk was yielded by the
   right-boundary step (lines 280 and 287). *)
RightBoundaryItems ==
    {k \in 1 .. Len(gen.stream) : gen.stream[k].line \in {280, 287}}

(* C16: the right-boundary step fires at most once in a walk: the stream
   holds at most one chunk of that step, the target's id or one beyondRight
   marker, and from the iteration in which it fired the step is resolved
   (oneBeyondRight is None), so no later iteration emits the target's id or
   a beyondRight marker. *)
C16_RightBoundaryFiresOnce ==
    /\ Cardinality(RightBoundaryItems) <= 1
    /\ RightBoundaryItems # {} <=> gen.oneBeyondRight = None
    /\ \A k \in 1 .. Len(gen.stream) :
          \/ gen.stream[k].type = "beyondRight"
          \/ (gen.stream[k].type = "id"
                /\ gen.stream[k].id = gen.targetInterval.intervalId)
          => k \in RightBoundaryItems

C16_Witness ==
    /\ gen.pc = "done"
    /\ gen.iters >= 3
    /\ \E k \in RightBoundaryItems : gen.stream[k].type = "beyondRight"

(* The positions of the stream that hold the plain id `id`. *)
PlainIdPositions(id) ==
    {k \in 1 .. Len(gen.stream) :
        gen.stream[k].type = "id" /\ gen.stream[k].id = id}

(* C17: no interval id is emitted as a plain id more than once in a walk:
   the target's id at most once, each ancestor's id at most once, and the
   id of the stopping node that follows a beyondLeft marker (line 326) was
   not emitted inside the loop. *)
C17_NoPlainIdTwice ==
    \A id \in DOMAIN WalkStore : Cardinality(PlainIdPositions(id)) <= 1

C17_Witness ==
    /\ gen.pc = "done"
    /\ HasBeyondLeft
    /\ \E k \in 1 .. Len(gen.stream) : gen.stream[k].line = 280
    /\ gen.stream[Len(gen.stream) - 1].line = 326

(* The positions on the chain of the nodes with enter <= end. *)
InsideRightEdge ==
    {k \in 1 .. Len(WalkChain) :
        WalkStore[WalkChain[k]].enter.Timestamp <= gen.end}

(* C18: a beyondRight marker in the stream was emitted in the iteration on
   the first node of the chain with enter <= end (the id that follows the
   marker is that node's); it carries the id, location and enter timestamp
   of the node before it on the chain, which is not the target and has
   enter > end. *)
C18_BeyondRightDescribesChild ==
    \A p \in 1 .. Len(gen.stream) :
        gen.stream[p].type = "beyondRight" =>
            /\ InsideRightEdge # {}
            /\ LET cur == MinOf(InsideRightEdge)
                   child == WalkStore[WalkChain[cur - 1]]
               IN  /\ cur >= 2
                   /\ gen.stream[p].id = child.intervalId
                   /\ gen.stream[p].location = child.Location
                   /\ gen.stream[p].beginTimestamp = child.enter.Timestamp
                   /\ child # gen.targetInterval
                   /\ child.enter.Timestamp > gen.end
                   /\ gen.iters >= cur
                   /\ gen.stream[p + 1] = IdChunk(299, TRUE, WalkChain[cur])

C18_Witness ==
    /\ gen.pc = "done"
    /\ \E p \in 1 .. Len(gen.stream) :
          /\ gen.stream[p].type = "beyondRight"
          /\ gen.stream[p].id # gen.targetInterval.intervalId
          /\ gen.stream[p].beginTimestamp > gen.end

(* C19: the text of a finished trace stream is one opening bracket, the
   emitted items and one closing bracket, where the first item's text does
   not start with a comma and the text of every later item starts with
   one. *)
C19_CommaSeparatedItems ==
    gen.pc = "done" =>
        LET n == Len(gen.stream)
        IN  /\ gen.stream[1] = OpenChunk
            /\ gen.stream[n] = CloseChunk
            /\ \A k \in 2 .. n - 1 :
                  /\ gen.stream[k].type \notin {"open", "close"}
                  /\ gen.stream[k].comma <=> (k > 2)

====
